---- MODULE Spec2Model ----
(***************************************************************************)
(* Model of the LPC language server's SourceContext (one per LPC file):    *)
(* the reference mesh between contexts (references / symbol-table          *)
(* dependencies), parse(), the lazily run semantic analysis and the        *)
(* reference counting built on it.                                         *)
(***************************************************************************)
EXTENDS Integers, Sequences, FiniteSets, TLC

(***************************************************************************)
(* Bounds of the model.                                                    *)
(***************************************************************************)
\* Largest number of uses of the tracked name that one source text holds.
MaxUses == 1
\* Largest number of entries addDiagnostic() may append to one list.
MaxAdded == 1
\* Largest number of calls made on the contexts in one run.
MaxCalls == 4
\* Largest number of symbol lookups one completion request starts.
MaxLookups == 3

\* The source contexts (files) of the workspace.
Units == {"A", "B", "C"}
NumUnits == Cardinality(Units)

\* The two always-present dependency tables.
GlobalSymbols == "Global Symbols"
EfunSymbols == "EfunSymbols"

(***************************************************************************)
(* The grammar, the DetailsVisitor and the SemanticListener are            *)
(* collaborators: a source text is modelled by what they report on it.     *)
(***************************************************************************)
Texts == {"", "use", "bad"}
\* ""    : the empty program a context is constructed with
\* "use" : a well-formed program that uses the tracked name
\* "bad" : a program with a syntax error, a semantic error and a use

SyntaxErrors(t) ==
    IF t = "bad" THEN <<[type |-> "Error", message |-> "syntax"]>> ELSE <<>>

SemanticErrors(t) ==
    IF t = "bad" THEN <<[type |-> "Error", message |-> "semantic"]>> ELSE <<>>

Uses(t) == IF t = "" THEN 0 ELSE MaxUses

NoTree == [defined |-> FALSE, text |-> ""]
TreeOf(t) == [defined |-> TRUE, text |-> t]

VARIABLES
    references,            \* references[u]: list of the contexts referencing u
    dependencies,          \* dependencies[u]: dependency tables of u's symbol table
    text,                  \* text[u]: the lexer's input stream
    tree,                  \* tree[u]: root context of the last parse run
    semanticAnalysisDone,  \* semanticAnalysisDone[u]
    diagnostics,           \* diagnostics[u]: list of diagnostic entries
    symbolReferences,      \* symbolReferences[u]: uses recorded in u's table
    generation,            \* generation[u]: parse() calls made on u
    walks,                 \* walks[u]: semantic walks of u since its last parse()
    last,                  \* the last call and what it returned
    calls,                 \* number of calls made so far
    arrow,                 \* arrow[u]: fields of the ArrowSymbol in u's table
    stack,                 \* the CallStack handed to the evaluations
    disk,                  \* the paths that exist on disk
    importDir,             \* the configured import directories, in order
    completion,            \* the lookups of a getCodeCompletionCandidates call
    walking                \* the contexts whose semantic walk is in progress

\* what the operations on the contexts' mesh and analysis leave alone
others == <<stack, disk, importDir, completion, walking>>

vars == <<references, dependencies, text, tree, semanticAnalysisDone,
          diagnostics, symbolReferences, generation, walks, last, calls,
          arrow, stack, disk, importDir, completion,
          walking>>

\* The fields of an ArrowSymbol as constructed: "" stands for undefined.
NewArrow ==
    [ArrowType |-> "CallOther", objContext |-> "", objectRef |-> "",
     functionName |-> ""]

\* No completion request in progress.
NoCompletion ==
    [phase |-> "idle", self |-> "", result |-> <<>>, lookups |-> <<>>,
     settled |-> <<>>]

\* The collaborators' state at start: an empty stack, nothing on disk, no
\* import directory, no completion request, no walk in progress.
InitOthers ==
    /\ arrow = [u \in Units |-> NewArrow]
    /\ stack = <<>>
    /\ disk = {}
    /\ importDir = <<>>
    /\ completion = NoCompletion
    /\ walking = <<>>

\* The record of a call: `arg` its extra argument, `ret` how it returned,
\* `count` the number it returned, `walked` the contexts it analysed,
\* `dropped` the diagnostics it removed, `invalidated` whether it reset a
\* completed analysis, `unchanged` whether parse() found the text of the
\* tree it replaced, `yielded` the number of entries that a getDiagnostics()
\* on the same context returned directly before a parse() (-1: there was no
\* such call), `added` the entries an evaluation appended, `value` the
\* source value an evaluation worked on.  parse() hands `yielded` and
\* `value` of the getDiagnostics() before it on to the one after it.
NoValue == [kind |-> "", value |-> ""]

\* A file name as written (`open` and `close` the delimiters around it,
\* `segs` its segments between the separators); a path on disk.
NoName == [open |-> "", segs |-> <<>>, close |-> ""]
NoPath == [open |-> "", segs |-> <<>>, close |-> ""]

\* `resolved`: the raw name resolveFilename() was given and what it returned
\* (fullPath NoPath and type "" stand for undefined).
NoResolved ==
    [raw |-> NoName, filename |-> NoName, fullPath |-> NoPath, type |-> ""]

\* `evald`: what an evaluation of an arrow did: the branch it took, whether
\* it got to the resolution of the function name, how often it evaluated the
\* target expression, whether it evaluated the arguments.  `modes`: the
\* prediction modes parse() ran the parser with.
NoEval ==
    [branch |-> "", reached |-> FALSE, targetEvals |-> 0, argEvals |-> FALSE,
     steps |-> <<>>, frames |-> <<>>]

Call(op, self, other, arg, ret) ==
    [op |-> op, self |-> self, other |-> other, arg |-> arg, ret |-> ret,
     count |-> 0, walked |-> {}, dropped |-> 0, invalidated |-> FALSE,
     unchanged |-> FALSE, yielded |-> -1, added |-> <<>>, value |-> NoValue,
     resolved |-> NoResolved, evald |-> NoEval, modes |-> <<>>]

\* State after constructing every context (fields' initialisers).
Init ==
    /\ references = [u \in Units |-> <<>>]
    /\ dependencies = [u \in Units |-> {}]
    /\ text = [u \in Units |-> ""]
    /\ tree = [u \in Units |-> NoTree]
    /\ semanticAnalysisDone = [u \in Units |-> FALSE]
    /\ diagnostics = [u \in Units |-> <<>>]
    /\ symbolReferences = [u \in Units |-> 0]
    /\ generation = [u \in Units |-> 0]
    /\ walks = [u \in Units |-> 0]
    /\ last = Call("new", "", "", "", "void")
    /\ calls = 0
    /\ InitOthers

\* A call that never returns leaves the (single-threaded) server stuck.
Hung == last.ret = "hang"

\* The next call can be made.
Ready ==
    /\ ~Hung
    /\ calls < MaxCalls
    /\ calls' = calls + 1

(***************************************************************************)
(* Helpers on lists.                                                       *)
(***************************************************************************)
\* Array.prototype.indexOf(x) > -1
Includes(list, x) == \E i \in DOMAIN list : list[i] = x

\* number of occurrences of x in list
Occurrences(list, x) == Cardinality({i \in DOMAIN list : list[i] = x})

\* index of the first occurrence, 0 when absent (indexOf + 1)
IndexOf(list, x) ==
    IF Includes(list, x)
    THEN CHOOSE i \in DOMAIN list :
             /\ list[i] = x
             /\ \A j \in DOMAIN list : list[j] = x => i <= j
    ELSE 0

\* list.splice(i, 1)
Splice(list, i) ==
    [j \in 1..(Len(list) - 1) |-> IF j < i THEN list[j] ELSE list[j + 1]]

\* SourceContext.getReferences
getReferences(u) == references[u]

(***************************************************************************)
(* addAsReferenceTo: the loop over the pipeline.  The pipeline holds the   *)
(* contexts still to visit, each with the length of the walk that brought  *)
(* it there.  A context taken from the pipeline at depth NumUnits lies on  *)
(* a walk that repeats a context, every context reachable from `context`   *)
(* has then been visited without finding `self`, and the pipeline never    *)
(* empties: the loop does not terminate.                                   *)
(***************************************************************************)
RECURSIVE Traverse(_, _)
Traverse(self, pipeline) ==
    IF pipeline = <<>> THEN "absent"
    ELSE LET current == Head(pipeline).context
             depth == Head(pipeline).depth
         IN  IF Includes(references[current], self) THEN "present"
             ELSE IF depth >= NumUnits THEN "hang"
             ELSE Traverse(self,
                      Tail(pipeline) \o
                      [i \in DOMAIN references[current] |->
                          [context |-> references[current][i],
                           depth |-> depth + 1]])

\* a check that never finds the caller
CheckMeshNever(self, context) == "absent"

\* a check that also rejects the edge when `context` already references `self`
CheckMeshRejectMutual(self, context) ==
    IF Includes(references[self], context) THEN "present"
    ELSE Traverse(self, <<[context |-> context, depth |-> 0]>>)

\* Outcome of the mutual-inclusion check of self.addAsReferenceTo(context).
CheckMesh(self, context) ==
    Traverse(self, <<[context |-> context, depth |-> 0]>>)

\* the dependency added the other way round
AddDependenciesReversed(deps, self, context) ==
    [deps EXCEPT ![context] = @ \cup {self}]

\* this.symbolTable.addDependencies(context.symbolTable)
AddDependencies(deps, self, context) ==
    [deps EXCEPT ![self] = @ \cup {context}]

AddAsReferenceTo(self, context, addSymbolTable) ==
    /\ Ready
    /\ LET found == CheckMesh(self, context)
       IN  /\ references' =
                 IF found = "absent"
                 THEN [references EXCEPT ![context] = Append(@, self)]
                 ELSE references
           /\ dependencies' =
                 IF found = "absent" /\ addSymbolTable
                 THEN AddDependencies(dependencies, self, context)
                 ELSE dependencies
           /\ last' = Call("addAsReferenceTo", self, context,
                           IF addSymbolTable THEN "true" ELSE "false",
                           IF found = "absent" THEN "added" ELSE found)
    /\ UNCHANGED <<text, tree, semanticAnalysisDone, diagnostics,
                   symbolReferences, generation, walks, arrow, others>>

(***************************************************************************)
(* removeDependency                                                        *)
(***************************************************************************)
\* the first entry removed whatever it is
RemoveHead(list, self) == IF list # <<>> THEN Tail(list) ELSE list

RemoveReference(list, self) ==
    IF IndexOf(list, self) > 0 THEN Splice(list, IndexOf(list, self)) ELSE list

RemoveDependency(self, context) ==
    /\ Ready
    /\ references' =
          [references EXCEPT ![context] = RemoveReference(@, self)]
    /\ dependencies' = [dependencies EXCEPT ![self] = @ \ {context}]
    /\ last' = [Call("removeDependency", self, context, "", "void")
                   EXCEPT !.dropped = Len(references[context])
                                        - Len(references'[context])]
    /\ UNCHANGED <<text, tree, semanticAnalysisDone, diagnostics,
                   symbolReferences, generation, walks, arrow, others>>

(***************************************************************************)
(* setText, parse                                                          *)
(***************************************************************************)
SetText(self, source) ==
    /\ Ready
    /\ text' = [text EXCEPT ![self] = source]
    /\ last' = Call("setText", self, "", source, "void")
    /\ UNCHANGED <<references, dependencies, tree, semanticAnalysisDone,
                   diagnostics, symbolReferences, generation, walks, arrow,
                   others>>

\* What parser.program() does on the text: "SLL" the first attempt returns a
\* tree, "LL" it is cancelled and the retry returns one, "LLthrow" it is
\* cancelled and the retry throws, "throw" it throws something else.
ParseOutcomes == {"SLL", "LL", "LLthrow", "throw"}

\* How the first run of parser.program() and the run of the retry end.
FirstAttempt(outcome) ==
    CASE outcome = "SLL" -> "tree"
      [] outcome \in {"LL", "LLthrow"} -> "ParseCancellationException"
      [] OTHER -> "Error"

Retry(outcome) == IF outcome = "LL" THEN "tree" ELSE "Error"

\* a handler catching every exception
IsAnyException(e) == e # "tree"

\* e instanceof ParseCancellationException
IsParseCancellation(e) == e = "ParseCancellationException"

\* The try/catch around parser.program(): the prediction modes run and how
\* the statement ends.
program(outcome) ==
    IF FirstAttempt(outcome) = "tree"
    THEN [modes |-> <<"SLL">>, ret |-> "info"]
    ELSE IF IsParseCancellation(FirstAttempt(outcome))
    THEN [modes |-> <<"SLL", "LL">>,
          ret |-> IF Retry(outcome) = "tree" THEN "info" ELSE "throw"]
    ELSE [modes |-> <<"SLL">>, ret |-> "throw"]

\* the flag left as it was
KeepAnalysisDone(done) == done

\* this.semanticAnalysisDone = false
ResetAnalysisDone(done) == FALSE

\* the list left as it was
KeepDiagnostics(list) == list

\* this.diagnostics.length = 0
ClearDiagnostics(list) == <<>>

\* symbolTable.clear() followed by the two addDependencies calls
ResetDependencies(deps) == {GlobalSymbols, EfunSymbols}

Parse(self, outcome) ==
    /\ Ready
    /\ tree' = [tree EXCEPT ![self] =
                   IF program(outcome).ret = "throw"
                   THEN NoTree ELSE TreeOf(text[self])]
    /\ semanticAnalysisDone' =
          [semanticAnalysisDone EXCEPT ![self] = ResetAnalysisDone(@)]
    /\ diagnostics' =
          [diagnostics EXCEPT ![self] =
              ClearDiagnostics(@) \o
              (IF program(outcome).ret = "throw"
               THEN <<>> ELSE SyntaxErrors(text[self]))]
    /\ symbolReferences' = [symbolReferences EXCEPT ![self] = 0]
    /\ dependencies' =
          [dependencies EXCEPT ![self] = ResetDependencies(@)]
    /\ generation' = [generation EXCEPT ![self] = @ + 1]
    /\ walks' = [walks EXCEPT ![self] = 0]
    /\ last' = [Call("parse", self, "", outcome, program(outcome).ret)
                   EXCEPT !.modes = program(outcome).modes,
                          !.dropped = Len(diagnostics[self]),
                          !.invalidated = semanticAnalysisDone[self],
                          !.unchanged = (tree[self].defined
                                         /\ program(outcome).ret # "throw"
                                         /\ tree[self].text = text[self]),
                          !.yielded = IF last.op = "getDiagnostics"
                                         /\ last.self = self
                                         /\ last.ret = "list"
                                      THEN last.count ELSE -1,
                          !.value = IF last.op = "getDiagnostics"
                                       /\ last.self = self
                                    THEN last.value ELSE NoValue]
    /\ arrow' = [arrow EXCEPT ![self] = NewArrow]
    /\ UNCHANGED <<references, text, others>>

\* the walk started whether or not there is a tree
AnalysisNeededAnyTree(u) == ~semanticAnalysisDone[u]

(***************************************************************************)
(* Semantic analysis                                                       *)
(***************************************************************************)
\* the guard of runSemanticAnalysisIfNeeded
AnalysisNeeded(u) == ~semanticAnalysisDone[u] /\ tree[u].defined

\* the flag never set
MarkDoneNever(u, walked) == semanticAnalysisDone[u]

\* the flag set for the contexts walked and for no other
MarkDoneOnlyWalked(u, walked) == u \in walked

\* the flag after the contexts in `walked` ran their semantic walk
MarkDone(u, walked) == semanticAnalysisDone[u] \/ u \in walked

\* The state after the contexts in `walked` each ran one semantic walk: the
\* listener records the tree's semantic errors and the uses of the name.
Analysed(walked) ==
    /\ semanticAnalysisDone' = [u \in Units |-> MarkDone(u, walked)]
    /\ diagnostics' =
          [u \in Units |->
              IF u \in walked
              THEN diagnostics[u] \o SemanticErrors(tree[u].text)
              ELSE diagnostics[u]]
    /\ symbolReferences' =
          [u \in Units |->
              IF u \in walked
              THEN symbolReferences[u] + Uses(tree[u].text)
              ELSE symbolReferences[u]]
    /\ walks' = [u \in Units |-> IF u \in walked THEN walks[u] + 1 ELSE walks[u]]

\* Entries that callers outside the context append.
AddedEntry == [type |-> "Warning", message |-> "added"]

AddDiagnostic(self, diagnostic) ==
    /\ Ready
    /\ Occurrences(diagnostics[self], diagnostic) < MaxAdded
    /\ diagnostics' = [diagnostics EXCEPT ![self] = Append(@, diagnostic)]
    /\ last' = Call("addDiagnostic", self, "", "", "void")
    /\ UNCHANGED <<references, dependencies, text, tree, generation,
                   semanticAnalysisDone, symbolReferences, walks, arrow,
                   others>>

(***************************************************************************)
(* getReferenceCount: the recursion over the referencing contexts.  The    *)
(* references do not change during the call, so a chain of more than       *)
(* NumUnits nested calls repeats a context and never unwinds: the call     *)
(* stack overflows (RangeError).  `walked` are the contexts whose semantic *)
(* walk this call has run so far.                                          *)
(***************************************************************************)
\* this.symbolTable.getReferenceCount(symbol), after a walk of u when it ran
TableCount(u, walked) ==
    symbolReferences[u] + (IF u \in walked THEN Uses(tree[u].text) ELSE 0)

\* runSemanticAnalysisIfNeeded() inside a getReferenceCount() call
RunIfNeeded(u, walked) ==
    IF AnalysisNeeded(u) /\ u \notin walked THEN walked \cup {u} ELSE walked

\* the count of the context's own table alone
getReferenceCountOwn(u, depth, walked) ==
    [overflow |-> FALSE, result |-> TableCount(u, RunIfNeeded(u, walked)),
     walked |-> RunIfNeeded(u, walked)]

RECURSIVE SumTables(_, _, _, _)
SumTables(list, i, result, walked) ==
    IF i > Len(list) THEN [overflow |-> FALSE, result |-> result, walked |-> walked]
    ELSE SumTables(list, i + 1,
             result + TableCount(list[i], RunIfNeeded(list[i], walked)),
             RunIfNeeded(list[i], walked))

\* the count of the own table and of the tables of the direct references
getReferenceCountDirect(u, depth, walked) ==
    SumTables(references[u], 1, TableCount(u, RunIfNeeded(u, walked)),
              RunIfNeeded(u, walked))

RECURSIVE getReferenceCount(_, _, _), SumReferences(_, _, _, _, _)
getReferenceCount(u, depth, walked) ==
    IF depth > NumUnits
    THEN [overflow |-> TRUE, result |-> 0, walked |-> walked]
    ELSE SumReferences(references[u], 1,
                       TableCount(u, RunIfNeeded(u, walked)), depth,
                       RunIfNeeded(u, walked))

SumReferences(list, i, result, depth, walked) ==
    IF i > Len(list)
    THEN [overflow |-> FALSE, result |-> result, walked |-> walked]
    ELSE LET r == getReferenceCount(list[i], depth + 1, walked)
         IN  IF r.overflow THEN r
             ELSE SumReferences(list, i + 1, result + r.result, depth, r.walked)

GetReferenceCount(self) ==
    /\ Ready
    /\ LET r == getReferenceCount(self, 1, {})
       IN  /\ Analysed(r.walked)
           /\ last' = [Call("getReferenceCount", self, "", "",
                            IF r.overflow THEN "RangeError" ELSE "number")
                          EXCEPT !.count = r.result, !.walked = r.walked]
    /\ UNCHANGED <<references, dependencies, text, tree, generation, arrow,
                   others>>

(***************************************************************************)
(* Arrow expressions.  A program text with an arrow expression is          *)
(* `foo() { <arrow>; }`: it declares the method foo and its table holds    *)
(* one ArrowSymbol.  The source of the arrow is a string literal (a path)  *)
(* or an expression `obj` whose value is known when it is evaluated.       *)
(***************************************************************************)
ArrowTexts ==
    {"'A'->foo()", "'B'->foo()", "'missing.c'->foo()",
     "obj->", "obj->foo", "obj->foo()", "obj->(fn)()"}

\* source: the path of a literal source, "" for the expression `obj`;
\* target: the name after the arrow, "" when there is none;
\* invocation: whether an argument list follows.
ArrowOf(t) ==
    [source |-> CASE t = "'A'->foo()" -> "A"
                  [] t = "'B'->foo()" -> "B"
                  [] t = "'missing.c'->foo()" -> "missing.c"
                  [] OTHER -> "",
     target |-> CASE t = "obj->" -> ""
                  [] t = "obj->(fn)()" -> "(fn)"
                  [] OTHER -> "foo",
     invocation |-> t \notin {"obj->", "obj->foo"}]

\* The values this.source.eval(stack) may return for the expression `obj`.
ObjValues ==
    {[kind |-> "string", value |-> "B"],
     [kind |-> "string", value |-> "missing.c"],
     [kind |-> "object", value |-> "B"],
     [kind |-> "struct", value |-> ""],
     [kind |-> "other", value |-> ""]}

\* The values this.source.eval(stack) may return for the arrow of a text.
SourceValues(t) ==
    IF ArrowOf(t).source # ""
    THEN {[kind |-> "string", value |-> ArrowOf(t).source]}
    ELSE ObjValues

\* The values this.target.eval(stack) may return: the name for a name, any
\* string or nothing ("") for an expression; "" where there is no target.
TargetValues(t) ==
    CASE ArrowOf(t).target = "(fn)" -> {"foo", "bar", "#fn", ""}
      [] OTHER -> {ArrowOf(t).target}

\* srcValue when this.source.eval(stack) returns nothing
Nothing == [kind |-> "undefined", value |-> ""]

\* The methods a program text declares: symTbl.getFunction(name) finds them.
Declares(t) == IF t \in ArrowTexts THEN {"foo"} ELSE {}

\* How funSym.eval(stack, argVals) ends.
Bodies == {"return", "throw"}

\* a registry that does not load a file that is already referenced
loadLpcUnreferenced(filename) ==
    IF filename \in Units /\ references[filename] = <<>> THEN filename ELSE ""

\* a registry that falls back to a default file
loadLpcFallback(filename) == IF filename \in Units THEN filename ELSE "B"

\* backend.loadLpc(path): the context of the file, "" (undefined) when the
\* file cannot be loaded.
loadLpc(filename) == IF filename \in Units THEN filename ELSE ""

MissingMethodName == [type |-> "Error", message |-> "Missing method name"]
MissingParens == [type |-> "Error", message |-> "Missing ()"]
MayBeUndefined == [type |-> "Error", message |-> "Function may be undefined"]
CouldNotLoad == [type |-> "Warning", message |-> "could not load source"]
\* an entry of another severity
MissingMemberWarning ==
    [type |-> "Warning", message |-> "Missing struct access member name"]

MissingMember ==
    [type |-> "Error", message |-> "Missing struct access member name"]
CannotCallMember ==
    [type |-> "Error", message |-> "Cannot call methods on struct members"]

\* ArrowSymbol.loadObject: the context loaded, the entry added to the
\* diagnostics and the outcome of ownerContext.addAsReferenceTo ("none": not
\* called).
loadObject(self, filename) ==
    LET sourceContext == loadLpc(filename)
    IN  [objContext |-> sourceContext,
         added |-> IF sourceContext = "" THEN <<CouldNotLoad>> ELSE <<>>,
         mesh |-> IF sourceContext = "" THEN "none"
                  ELSE CheckMesh(self, sourceContext)]

\* ArrowSymbol.evalStruct
evalStruct(self, node, shape) ==
    [ret |-> "scope",
     added |-> IF shape.target = "" THEN <<MissingMember>>
               ELSE IF shape.invocation THEN <<CannotCallMember>>
               ELSE <<>>,
     node |-> [node EXCEPT !.ArrowType = "StructMember"],
     mesh |-> "none", pushed |-> <<>>, popped |-> FALSE,
     evald |-> [NoEval EXCEPT !.branch = "evalStruct"]]

\* a table that finds a function for every name
getFunctionAny(objContext, functionName) == objContext # ""

\* this.objContext?.symbolTable?.getFunction(this.functionName): whether a
\* function symbol is found.
getFunction(objContext, functionName) ==
    /\ objContext # ""
    /\ functionName # ""
    /\ functionName \in Declares(tree[objContext].text)

\* the frame pushed for the call of fn in the table of objContext
StackFrame(objContext, fn) == [symbol |-> fn, table |-> objContext]

\* the callee's frame popped only when the body returns
PopOnReturn(body) == body = "return"

\* the frame pushed before the arguments are evaluated
CallStepsPushFirst(invocation, body) ==
    <<[step |-> "push", depth |-> 1]>>
    \o (IF invocation THEN <<[step |-> "arguments", depth |-> 1]>> ELSE <<>>)
    \o <<[step |-> "body", depth |-> 1], [step |-> "pop", depth |-> 0]>>

\* The steps of the call once the function is found, each with the number
\* of frames of this call on the stack when it is done: the arguments of
\* the invocation, stack.push, funSym.eval, stack.pop.
CallSteps(invocation, body) ==
    (IF invocation THEN <<[step |-> "arguments", depth |-> 0]>> ELSE <<>>)
    \o <<[step |-> "push", depth |-> 1], [step |-> "body", depth |-> 1]>>
    \o (IF PopOnReturn(body)
        THEN <<[step |-> "pop", depth |-> 0]>> ELSE <<>>)

\* ArrowSymbol.evalCallOther: what it returns ("value", "undefined", "throw",
\* or "hang" when addAsReferenceTo does not return), the entries it adds,
\* the fields of the symbol afterwards, the outcome of addAsReferenceTo, the
\* frames it pushes and whether it pops.
evalCallOther(self, node, shape, srcValue, fn, body) ==
    LET checks == IF shape.target = "" THEN <<MissingMethodName>>
                  ELSE IF ~shape.invocation THEN <<MissingParens>>
                  ELSE <<>>
        loaded == IF srcValue.kind = "string"
                  THEN loadObject(self, srcValue.value)
                  ELSE [objContext |-> srcValue.value, added |-> <<>>,
                        mesh |-> "none"]
        evaluates == node.functionName \in {"", "#fn"}
        functionName == IF evaluates
                        THEN (IF shape.target = "" THEN "" ELSE fn)
                        ELSE node.functionName
        called == [NoEval EXCEPT !.branch = "evalCallOther"]
        named == [called EXCEPT
                     !.reached = TRUE,
                     !.targetEvals = IF evaluates /\ shape.target # ""
                                     THEN 1 ELSE 0]
        resolved == [node EXCEPT
                        !.ArrowType = "CallOther",
                        !.objContext = loaded.objContext,
                        !.objectRef = IF srcValue.kind = "object"
                                      THEN srcValue.value ELSE @,
                        !.functionName = functionName]
        funSym == getFunction(loaded.objContext, functionName)
    IN  IF srcValue.kind \notin {"string", "object"}
        THEN [ret |-> "undefined", added |-> checks,
              node |-> [node EXCEPT !.ArrowType = "CallOther"],
              mesh |-> "none", pushed |-> <<>>, popped |-> FALSE,
              evald |-> called]
        ELSE IF loaded.mesh = "hang"
        THEN [ret |-> "hang", added |-> checks,
              node |-> [node EXCEPT !.ArrowType = "CallOther"],
              mesh |-> "hang", pushed |-> <<>>, popped |-> FALSE,
              evald |-> called]
        ELSE IF ~funSym
        THEN [ret |-> "undefined",
              added |-> checks \o loaded.added \o <<MayBeUndefined>>,
              node |-> resolved, mesh |-> loaded.mesh,
              pushed |-> <<>>, popped |-> FALSE, evald |-> named]
        ELSE [ret |-> IF body = "return" THEN "value" ELSE "throw",
              added |-> checks \o loaded.added,
              node |-> resolved, mesh |-> loaded.mesh,
              pushed |-> <<StackFrame(loaded.objContext, functionName)>>,
              popped |-> PopOnReturn(body),
              evald |-> [named EXCEPT
                           !.argEvals = shape.invocation,
                           !.steps = CallSteps(shape.invocation, body),
                           !.frames = <<StackFrame(loaded.objContext,
                                                   functionName)>>]]

\* every value that is not a path or an object taken for a struct
IsStructOrOther(srcValue) == srcValue.kind \notin {"string", "object"}

\* srcValue?.type?.name == "struct"
IsStruct(srcValue) == srcValue.kind = "struct"

\* ArrowSymbol.eval on the arrow of self's tree
eval(self, srcValue, fn, body) ==
    IF IsStruct(srcValue)
    THEN evalStruct(self, arrow[self], ArrowOf(tree[self].text))
    ELSE evalCallOther(self, arrow[self], ArrowOf(tree[self].text),
                       srcValue, fn, body)

\* The effects of an evaluation `r` of self's arrow on the state.
Evaluated(self, r) ==
    /\ diagnostics' = [diagnostics EXCEPT ![self] = @ \o r.added]
    /\ arrow' = [arrow EXCEPT ![self] = r.node]
    /\ references' =
          IF r.mesh = "absent"
          THEN [references EXCEPT ![r.node.objContext] = Append(@, self)]
          ELSE references
    /\ dependencies' =
          IF r.mesh = "absent"
          THEN AddDependencies(dependencies, self, r.node.objContext)
          ELSE dependencies
    /\ stack' = IF r.popped THEN stack ELSE stack \o r.pushed

HasArrow(u) == tree[u].defined /\ tree[u].text \in ArrowTexts

\* how the body of the callee ended in the evaluation r, "" when r did not
\* get to evaluate one
Evaluates(r, body) == IF r.pushed # <<>> THEN body ELSE ""

\* A call of ArrowSymbol.eval on the arrow of self's tree, the source
\* evaluating to srcValue and the target, if evaluated, to fn.
EvalNode(self, srcValue, fn, body) ==
    /\ Ready
    /\ HasArrow(self)
    /\ LET r == eval(self, srcValue, fn, body)
       IN  /\ Evaluated(self, r)
           /\ last' = [Call("eval", self, r.node.objContext,
                            Evaluates(r, body), r.ret)
                          EXCEPT !.added = r.added, !.value = srcValue,
                                 !.evald = r.evald]
    /\ UNCHANGED <<text, tree, semanticAnalysisDone, symbolReferences,
                   generation, walks, disk, importDir, completion,
                   walking>>

\* The same for a target that is a name.
Eval(self, srcValue, body) ==
    /\ srcValue \in SourceValues(tree[self].text)
    /\ EvalNode(self, srcValue, ArrowOf(tree[self].text).target, body)

\* The state after the semantic walk of self that evaluated its arrow with
\* the result r: the flag is set before the walk starts.
AnalysedArrow(self, r) ==
    /\ Evaluated(self, r)
    /\ semanticAnalysisDone' = [u \in Units |-> MarkDone(u, {self})]
    /\ symbolReferences' =
          [symbolReferences EXCEPT ![self] = @ + Uses(tree[self].text)]
    /\ walks' = [walks EXCEPT ![self] = @ + 1]

\* What the getDiagnostics() of the generation before returned, when this
\* call comes directly after a parse() of unchanged text that came directly
\* after that getDiagnostics(), and the arrow's source has the same value
\* as then; -1 otherwise.
Rerun(self, srcValue) ==
    IF last.op = "parse" /\ last.self = self /\ last.unchanged
       /\ last.value = srcValue
    THEN last.yielded ELSE -1

\* SourceContext.getDiagnostics.  The walk of a tree with an arrow
\* evaluates the arrow; an exception of the evaluation leaves the call.
GetDiagnostics(self) ==
    /\ Ready
    /\ LET walked == IF AnalysisNeeded(self) THEN {self} ELSE {}
       IN  IF walked # {} /\ HasArrow(self)
           THEN \E srcValue \in SourceValues(tree[self].text),
                   fn \in TargetValues(tree[self].text), body \in Bodies :
                   LET r == eval(self, srcValue, fn, body)
                   IN  /\ AnalysedArrow(self, r)
                       /\ last' = [Call("getDiagnostics", self, "",
                                        Evaluates(r, body),
                                        IF r.ret \in {"throw", "hang"}
                                        THEN r.ret ELSE "list")
                                      EXCEPT !.walked = walked,
                                             !.count = Len(diagnostics'[self]),
                                             !.added = r.added,
                                             !.value = srcValue,
                                             !.yielded = Rerun(self, srcValue)]
           ELSE /\ Analysed(walked)
                /\ last' = [Call("getDiagnostics", self, "", "", "list")
                               EXCEPT !.walked = walked,
                                      !.count = Len(diagnostics'[self]),
                                      !.yielded = Rerun(self, NoValue)]
                /\ UNCHANGED <<references, dependencies, arrow, stack>>
    /\ UNCHANGED <<text, tree, generation, disk, importDir, completion,
                   walking>>

(***************************************************************************)
(* symbolAtPosition with limitToChildren set, the position on the target   *)
(* of the tree's arrow (rule callOtherTarget) when it has one.             *)
(***************************************************************************)
symbolAtPosition(self) ==
    IF ~tree[self].defined THEN "undefined"
    ELSE IF HasArrow(self) /\ ArrowOf(tree[self].text).target # ""
    THEN IF arrow[self].objContext = "" THEN "undefined"
         ELSE IF ArrowOf(tree[self].text).target
                    \in Declares(tree[arrow[self].objContext].text)
         THEN "symbols" ELSE "none"
    ELSE "symbols"

SymbolAtPosition(self) ==
    /\ Ready
    /\ last' = Call("symbolAtPosition", self, arrow[self].objContext, "",
                    symbolAtPosition(self))
    /\ UNCHANGED <<references, dependencies, text, tree, generation,
                   semanticAnalysisDone, diagnostics, symbolReferences, walks,
                   arrow, others>>

(***************************************************************************)
(* getCodeCompletionCandidates.  The call pushes the fixed candidates of   *)
(* the expected tokens and rules, starts one symbol lookup per rule        *)
(* (promises.push, in this order) and awaits them; the lookups settle in   *)
(* any order; the continuation merges their symbols into the result.       *)
(***************************************************************************)
\* The names a lookup may return, in the order it returns them.
NameLists ==
    {<<>>, <<"x">>, <<"EOF">>, <<"x", "y">>, <<"y", "x">>, <<"x", "x">>,
     <<"EOF", "x">>}

\* What a lookup resolves to: undefined or a list of symbols.
LookupValues ==
    {[defined |-> FALSE, names |-> <<>>]}
        \cup {[defined |-> TRUE, names |-> l] : l \in NameLists}

\* The lookups of one request, in the order they are registered.
LookupSeqs == UNION {[1..n -> LookupValues] : n \in 0..MaxLookups}

\* The candidates pushed before the lookups are awaited.
ArrowOperator == [name |-> "->", from |-> 0]
FixedCandidates == {<<>>, <<ArrowOperator>>}

\* The symbols of the lookups: a symbol carries its name and the lookup
\* that returned it (its kind and table).
SymbolsOf(lookups) ==
    [i \in DOMAIN lookups |->
        [defined |-> lookups[i].defined,
         symbols |-> [k \in DOMAIN lookups[i].names |->
                         [name |-> lookups[i].names[k], from |-> i]]]]

\* The built-in functions of the table EfunSymbols.
Efuns == <<[name |-> "write", kind |-> "EfunSymbol"]>>

\* The methods declared in the text of u.
OwnMethods(u) ==
    IF "foo" \in Declares(tree[u].text)
    THEN <<[name |-> "foo", kind |-> "MethodSymbol"]>> ELSE <<>>

\* symbolTable.getAllSymbols(MethodSymbol, false) of u: its own methods and
\* those of the tables it depends on (an EfunSymbol is a MethodSymbol); of
\* the dependencies only the table of the built-in functions is followed.
getAllMethods(u) ==
    OwnMethods(u) \o (IF EfunSymbols \in dependencies[u] THEN Efuns ELSE <<>>)

\* symbols.filter((s) => !(s instanceof EfunSymbol))
NotEfun(symbol) == symbol.kind # "EfunSymbol"

\* The names of a list of symbols.
NamesOf(symbols) == [k \in DOMAIN symbols |-> symbols[k].name]

\* The lookup the arrow of self's tree makes the request start: the methods
\* of the resolved object, none when the arrow has no object reference.
ArrowLookups(self) ==
    IF arrow[self].ArrowType = "CallOther" /\ arrow[self].objectRef # ""
    THEN <<[defined |-> TRUE,
            names |-> NamesOf(SelectSeq(getAllMethods(arrow[self].objectRef),
                                        NotEfun))]>>
    ELSE <<>>

\* the values in the order in which the lookups settled
PromiseAllAsSettled(lists, settled) ==
    [k \in DOMAIN settled |-> lists[settled[k]]]

\* await Promise.all(promises): the values in the order of the promises
PromiseAll(lists, settled) == lists

\* symbols.forEach of one list: acc holds the names seen and the result.
RECURSIVE AddSymbols(_, _, _)
AddSymbols(symbols, k, acc) ==
    IF k > Len(symbols) THEN acc
    ELSE LET symbol == symbols[k]
         IN  IF symbol.name # "EOF" /\ symbol.name \notin acc.names
             THEN AddSymbols(symbols, k + 1,
                      [names |-> acc.names \cup {symbol.name},
                       result |-> Append(acc.result, symbol)])
             ELSE AddSymbols(symbols, k + 1, acc)

\* symbolLists.forEach
RECURSIVE MergeLists(_, _, _)
MergeLists(symbolLists, i, acc) ==
    IF i > Len(symbolLists) THEN acc
    ELSE MergeLists(symbolLists, i + 1,
             IF symbolLists[i].defined
             THEN AddSymbols(symbolLists[i].symbols, 1, acc)
             ELSE acc)

\* The call up to the await.
GetCodeCompletionCandidates(self, fixed, lookups) ==
    /\ Ready
    /\ completion.phase # "pending"
    /\ HasArrow(self) => (fixed = <<>> /\ lookups = ArrowLookups(self))
    /\ completion' = [phase |-> "pending", self |-> self, result |-> fixed,
                      lookups |-> lookups, settled |-> <<>>]
    /\ last' = Call("getCodeCompletionCandidates", self, "", "", "pending")
    /\ UNCHANGED <<references, dependencies, text, tree, generation,
                   semanticAnalysisDone, diagnostics, symbolReferences, walks,
                   arrow, stack, disk, importDir,
                   walking>>

\* One of the lookups settles.
Settle(i) ==
    /\ ~Hung
    /\ completion.phase = "pending"
    /\ i \in DOMAIN completion.lookups
    /\ \A k \in DOMAIN completion.settled : completion.settled[k] # i
    /\ completion' = [completion EXCEPT !.settled = Append(@, i)]
    /\ UNCHANGED <<references, dependencies, text, tree, generation,
                   semanticAnalysisDone, diagnostics, symbolReferences, walks,
                   arrow, stack, disk, importDir, last, calls,
                   walking>>

\* The continuation of the call after the await.
Merge ==
    /\ ~Hung
    /\ completion.phase = "pending"
    /\ Len(completion.settled) = Len(completion.lookups)
    /\ LET symbolLists == PromiseAll(SymbolsOf(completion.lookups),
                                     completion.settled)
           merged == MergeLists(symbolLists, 1,
                                [names |-> {}, result |-> completion.result])
       IN  /\ completion' = [completion EXCEPT !.phase = "done",
                                               !.result = merged.result]
           /\ last' = [Call("getCodeCompletionCandidates", completion.self,
                            "", "", "list")
                          EXCEPT !.count = Len(merged.result)]
    /\ UNCHANGED <<references, dependencies, text, tree, generation,
                   semanticAnalysisDone, diagnostics, symbolReferences, walks,
                   arrow, stack, disk, importDir, calls,
                   walking>>

(***************************************************************************)
(* resolveFilename.  A directory is the list of its segments, a name the   *)
(* list of its segments with the delimiters written around it, a path the  *)
(* directory's segments followed by the name's.                            *)
(***************************************************************************)
\* Largest number of configured import directories.
MaxImportDirs == 2

\* path.dirname of the context's file, and backend.workspaceDir
basePath == <<"ws", "src">>
workspaceDir == <<"ws">>

\* The import directories of the configuration: absolute or relative.
ConfiguredDirs ==
    {[absolute |-> TRUE, segs |-> <<"inc">>],
     [absolute |-> FALSE, segs |-> <<"lib">>]}

ImportDirLists == UNION {[1..n -> ConfiguredDirs] : n \in 0..MaxImportDirs}

\* The names an include or inherit is written with: bare, quoted, bracketed.
NameSegs == {<<"x.h">>, <<"sub", "x.h">>, <<"x">>}
Delimiters == {<<"", "">>, <<"\"", "\"">>, <<"<", ">">>}
RawNames ==
    {[open |-> d[1], segs |-> n, close |-> d[2]] :
        d \in Delimiters, n \in NameSegs}

\* path.join(p, name)
JoinPath(p, name) ==
    [open |-> name.open, segs |-> p \o name.segs, close |-> name.close]

\* A file of the disk at a directory.
File(p, segs) == [open |-> "", segs |-> p \o segs, close |-> ""]

\* The files that may exist.
Files ==
    {File(basePath, <<"x.h">>), File(<<"inc">>, <<"x.h">>),
     File(basePath, <<"lib", "x.h">>), File(basePath, <<"sub", "x.h">>),
     File(<<"inc">>, <<"sub", "x.h">>), File(workspaceDir, <<"sub", "x.h">>),
     File(basePath, <<"x.c">>), File(<<"inc">>, <<"x.c">>)}

\* existsSync answering for every path
existsSyncAlways(depPath) == TRUE

\* fs.existsSync(depPath)
existsSync(depPath) == depPath \in disk

\* testFilename(filename, c, cEnd): the name without the delimiters c and
\* cEnd when it is written between them, else the name as it is.
testFilename(filename, c, cEnd) ==
    IF filename.open = c /\ filename.close = cEnd
    THEN [filename EXCEPT !.open = "", !.close = ""]
    ELSE filename

\* normalizeFilename(filename): a name without extension gets ".c".
WithExtension == [s \in {"x", "x.h", "x.c", "sub"} |->
                    IF s = "x" THEN "x.c" ELSE s]

normalizeFilename(filename) ==
    [filename EXCEPT !.segs =
        [i \in DOMAIN filename.segs |->
            IF i = Len(filename.segs)
            THEN WithExtension[filename.segs[i]]
            ELSE filename.segs[i]]]

\* filenameNormed.includes("/")
IncludesSeparator(filename) == Len(filename.segs) > 1

\* this.importDir.map(...)
fullImportDirs ==
    [i \in DOMAIN importDir |->
        IF importDir[i].absolute
        THEN importDir[i].segs
        ELSE basePath \o importDir[i].segs]

\* Array.prototype.reverse
reverse(list) == [i \in DOMAIN list |-> list[Len(list) + 1 - i]]

\* the search paths in the same order for both search types
searchOrderLocal(fileType, searchPaths) == searchPaths

\* if (fileType === Global) searchPaths.reverse()
searchOrder(fileType, searchPaths) ==
    IF fileType = "Global" THEN reverse(searchPaths) ELSE searchPaths

\* SourceContext.resolveFilename
resolveFilename(raw) ==
    LET quoted == testFilename(raw, "\"", "\"")
        filename == IF quoted # raw THEN quoted
                    ELSE testFilename(raw, "<", ">")
        fileType == IF quoted # raw THEN "Local"
                    ELSE IF filename # raw THEN "Global" ELSE "Local"
        filenameNormed == normalizeFilename(filename)
        ordered == searchOrder(fileType, <<basePath>> \o fullImportDirs)
        searchPaths == IF IncludesSeparator(filenameNormed)
                       THEN Append(ordered, workspaceDir)
                       ELSE ordered
        found == {i \in DOMAIN searchPaths :
                     existsSync(JoinPath(searchPaths[i], filenameNormed))}
    IN  IF found # {}
        THEN LET first == CHOOSE i \in found : \A j \in found : i <= j
             IN  [raw |-> raw, filename |-> filenameNormed,
                  fullPath |-> JoinPath(searchPaths[first], filenameNormed),
                  type |-> fileType]
        ELSE [raw |-> raw, filename |-> filename, fullPath |-> NoPath,
              type |-> ""]

ResolveFilename(self, raw) ==
    /\ Ready
    /\ last' = [Call("resolveFilename", self, "", "", "value")
                    EXCEPT !.resolved = resolveFilename(raw)]
    /\ UNCHANGED <<references, dependencies, text, tree,
                   semanticAnalysisDone, diagnostics, symbolReferences,
                   generation, walks, arrow, others>>

(***************************************************************************)
(* Specifications                                                          *)
(***************************************************************************)
\* The reference mesh of three contexts.
Next ==
    \E self \in Units, context \in Units :
        \/ \E addSymbolTable \in BOOLEAN :
               AddAsReferenceTo(self, context, addSymbolTable)
        \/ RemoveDependency(self, context)
        \/ Parse(self, "SLL")
        \/ GetReferenceCount(self)

Spec == Init /\ [][Next]_vars

\* The mesh without calls of a context on itself.
NextMutual ==
    \E self \in Units : \E context \in Units \ {self} :
        \/ AddAsReferenceTo(self, context, TRUE)
        \/ RemoveDependency(self, context)
        \/ Parse(self, "SLL")
        \/ GetReferenceCount(self)

SpecMutual == Init /\ [][NextMutual]_vars

\* Every context loaded: its text set and parsed once.
LoadedTexts == {"", "use"}

InitLoaded ==
    /\ references = [u \in Units |-> <<>>]
    /\ text \in [Units -> LoadedTexts]
    /\ tree = [u \in Units |-> TreeOf(text[u])]
    /\ dependencies = [u \in Units |-> {GlobalSymbols, EfunSymbols}]
    /\ semanticAnalysisDone = [u \in Units |-> FALSE]
    /\ diagnostics = [u \in Units |-> SyntaxErrors(text[u])]
    /\ symbolReferences = [u \in Units |-> 0]
    /\ generation = [u \in Units |-> 1]
    /\ walks = [u \in Units |-> 0]
    /\ last = Call("new", "", "", "", "void")
    /\ calls = 0
    /\ InitOthers

\* Reference counting over the mesh of loaded contexts.
NextCount ==
    \E self \in Units, context \in Units :
        \/ AddAsReferenceTo(self, context, TRUE)
        \/ Parse(self, "SLL")
        \/ GetReferenceCount(self)

SpecCount == InitLoaded /\ [][NextCount]_vars

\* The contexts the requests of the analysis are made on.
AnalysisUnits == {"A", "B"}

\* Three loaded contexts with an arrow each: A's of any form with a source
\* other than A itself, B's and C's a call into A.
InitArrow ==
    /\ references = [u \in Units |-> <<>>]
    /\ text \in {t \in [Units -> ArrowTexts] :
                    /\ t["A"] \notin {"'A'->foo()", "obj->(fn)()"}
                    /\ t["B"] = "'A'->foo()"
                    /\ t["C"] = "'A'->foo()"}
    /\ tree = [u \in Units |-> TreeOf(text[u])]
    /\ dependencies = [u \in Units |-> {GlobalSymbols, EfunSymbols}]
    /\ semanticAnalysisDone = [u \in Units |-> FALSE]
    /\ diagnostics = [u \in Units |-> SyntaxErrors(text[u])]
    /\ symbolReferences = [u \in Units |-> 0]
    /\ generation = [u \in Units |-> 1]
    /\ walks = [u \in Units |-> 0]
    /\ last = Call("new", "", "", "", "void")
    /\ calls = 0
    /\ InitOthers

\* Evaluation of the arrows, directly (any context) and by the semantic
\* walk of a request on A or B.
NextArrow ==
    \E self \in Units :
        \/ \E srcValue \in ObjValues \cup SourceValues(tree[self].text),
              body \in Bodies : Eval(self, srcValue, body)
        \/ self \in AnalysisUnits /\ Parse(self, "SLL")
        \/ self \in AnalysisUnits /\ GetDiagnostics(self)
        \/ self = "A" /\ SymbolAtPosition(self)

SpecArrow == InitArrow /\ [][NextArrow]_vars

\* Completion at the arrow of A between its evaluations.
NextMembers ==
    \/ /\ completion.phase # "pending"
       /\ \E srcValue \in ObjValues \cup SourceValues(tree["A"].text),
             body \in Bodies : Eval("A", srcValue, body)
    \/ GetCodeCompletionCandidates("A", <<>>, ArrowLookups("A"))
    \/ Settle(1)
    \/ Merge

SpecMembers == InitArrow /\ [][NextMembers]_vars

\* The values the source of the arrow of a text may evaluate to, nothing
\* included.
EvalValues(t) ==
    IF ArrowOf(t).source # "" THEN SourceValues(t)
    ELSE ObjValues \cup {Nothing}

\* Three loaded contexts, A's arrow with the expression `obj` as source and
\* any target, B's and C's a call into A.
InitEval ==
    /\ references = [u \in Units |-> <<>>]
    /\ text \in {t \in [Units -> ArrowTexts] :
                    /\ ArrowOf(t["A"]).source = ""
                    /\ t["B"] = "'A'->foo()"
                    /\ t["C"] = "'A'->foo()"}
    /\ tree = [u \in Units |-> TreeOf(text[u])]
    /\ dependencies = [u \in Units |-> {GlobalSymbols, EfunSymbols}]
    /\ semanticAnalysisDone = [u \in Units |-> FALSE]
    /\ diagnostics = [u \in Units |-> SyntaxErrors(text[u])]
    /\ symbolReferences = [u \in Units |-> 0]
    /\ generation = [u \in Units |-> 1]
    /\ walks = [u \in Units |-> 0]
    /\ last = Call("new", "", "", "", "void")
    /\ calls = 0
    /\ InitOthers

\* Evaluations of A's arrow with every value of its source and target, and
\* the parse that starts a new generation.
NextEval ==
    \/ \E srcValue \in EvalValues(tree["A"].text),
          fn \in TargetValues(tree["A"].text), body \in Bodies :
           EvalNode("A", srcValue, fn, body)
    \/ \E body \in Bodies :
           Eval("B", [kind |-> "string", value |-> "A"], body)
    \/ Parse("A", "SLL")

SpecEval == InitEval /\ [][NextEval]_vars

\* Name resolution: three loaded contexts (one with a syntax error), any
\* set of files on disk, any list of import directories.
InitResolve ==
    /\ references = [u \in Units |-> <<>>]
    /\ text = [u \in Units |-> IF u = "A" THEN "bad" ELSE "use"]
    /\ tree = [u \in Units |-> TreeOf(text[u])]
    /\ dependencies = [u \in Units |-> {GlobalSymbols, EfunSymbols}]
    /\ semanticAnalysisDone = [u \in Units |-> FALSE]
    /\ diagnostics = [u \in Units |-> SyntaxErrors(text[u])]
    /\ symbolReferences = [u \in Units |-> 0]
    /\ generation = [u \in Units |-> 1]
    /\ walks = [u \in Units |-> 0]
    /\ last = Call("new", "", "", "", "void")
    /\ calls = 0
    /\ arrow = [u \in Units |-> NewArrow]
    /\ stack = <<>>
    /\ completion = NoCompletion
    /\ walking = <<>>
    /\ disk \in SUBSET Files
    /\ importDir \in ImportDirLists

NextResolve ==
    \/ \E raw \in RawNames : ResolveFilename("A", raw)
    \/ GetDiagnostics("A")

SpecResolve == InitResolve /\ [][NextResolve]_vars

\* One completion request on a context without an arrow.
NextCompletion ==
    \/ /\ completion.phase = "idle"
       /\ \E fixed \in FixedCandidates, lookups \in LookupSeqs :
              GetCodeCompletionCandidates("A", fixed, lookups)
    \/ \E i \in 1..MaxLookups : Settle(i)
    \/ Merge

SpecCompletion == Init /\ [][NextCompletion]_vars

\* Every operation of two contexts with texts without an arrow.
NextQueries ==
    \/ \E self \in AnalysisUnits :
           \/ \E source \in Texts : SetText(self, source)
           \/ Parse(self, "SLL")
           \/ GetDiagnostics(self)
           \/ GetReferenceCount(self)
           \/ AddDiagnostic(self, AddedEntry)
           \/ \E context \in AnalysisUnits :
                  \/ AddAsReferenceTo(self, context, TRUE)
                  \/ RemoveDependency(self, context)
           \/ SymbolAtPosition(self)
           \/ \E lookups \in {<<>>, <<[defined |-> TRUE, names |-> <<"x">>]>>} :
                  GetCodeCompletionCandidates(self, <<>>, lookups)
    \/ Settle(1)
    \/ Merge

SpecQueries == Init /\ [][NextQueries]_vars

\* Parsing and analysis of two contexts.
NextAnalysis ==
    \E self \in AnalysisUnits :
        \/ \E source \in Texts : SetText(self, source)
        \/ \E outcome \in ParseOutcomes : Parse(self, outcome)
        \/ GetDiagnostics(self)
        \/ GetReferenceCount(self)
        \/ AddDiagnostic(self, AddedEntry)
        \/ \E context \in AnalysisUnits : AddAsReferenceTo(self, context, TRUE)

SpecAnalysis == Init /\ [][NextAnalysis]_vars

(***************************************************************************)
(* Definitions the properties below are stated with.                       *)
(***************************************************************************)
IsAddAsReferenceTo(call) == call.op = "addAsReferenceTo"
Returned(call) == call.ret \in {"added", "present"}

\* the contexts in the lists of S
Referrers(S) ==
    UNION {{references[x][i] : i \in DOMAIN references[x]} : x \in S}

RECURSIVE Closure(_, _)
Closure(S, n) == IF n = 0 THEN S ELSE Closure(S \cup Referrers(S), n - 1)

\* u and the contexts that reference it, directly or through others
ReferrersOf(u) == Closure({u}, NumUnits)

\* the tables that a lookup starting in u's table goes through: its own,
\* its dependencies and, recursively, theirs
RECURSIVE DependencyClosure(_, _)
DependencyClosure(S, n) ==
    IF n = 0 THEN S
    ELSE DependencyClosure(
             S \cup UNION {dependencies[x] \cap Units : x \in S \cap Units},
             n - 1)

VisibleFrom(u) == DependencyClosure({u}, NumUnits)

(***************************************************************************)
(* C1: after A.addAsReferenceTo(B) returns, B.getReferences() contains A   *)
(* exactly once, also after a second call.                                 *)
(***************************************************************************)
\* C1 as claimed: violated when A already references B through another
\* context, where the call returns without registering A in B's list.
C1_ContainsExactlyOnce ==
    (IsAddAsReferenceTo(last) /\ Returned(last))
        => Occurrences(getReferences(last.other), last.self) = 1

\* C1 amended: after A.addAsReferenceTo(B) returns, B.getReferences()
\* contains A at most once, and exactly once when the call registered it; A
\* is in the references of B or of a context that references B directly or
\* through others.
C1_AtMostOnceAndTransitive ==
    (IsAddAsReferenceTo(last) /\ Returned(last))
        => /\ Occurrences(getReferences(last.other), last.self) <= 1
           /\ last.ret = "added"
                 => Occurrences(getReferences(last.other), last.self) = 1
           /\ \E x \in ReferrersOf(last.other) :
                 Includes(getReferences(x), last.self)

\* C1 witness: a repeated call returned early and the list holds A once.
C1_SecondCallWitness ==
    /\ IsAddAsReferenceTo(last)
    /\ last.ret = "present"
    /\ Occurrences(getReferences(last.other), last.self) = 1

(***************************************************************************)
(* C2: once A.addAsReferenceTo(B) (mergeSymbols true) has returned, B's    *)
(* table is a dependency of A's table, so B's top-level names resolve from *)
(* within A.                                                               *)
(***************************************************************************)
\* C2 as claimed: B's table is among the tables a lookup in A goes through.
C2_ResolvesAfterReference ==
    (IsAddAsReferenceTo(last) /\ last.arg = "true" /\ Returned(last))
        => last.other \in VisibleFrom(last.self)

(***************************************************************************)
(* C3: A.addAsReferenceTo(B, true) adds A's table as a dependency of B's   *)
(* table.                                                                  *)
(***************************************************************************)
\* C3 as claimed.
C3_CallerBecomesDependency ==
    (IsAddAsReferenceTo(last) /\ last.arg = "true" /\ last.ret = "added")
        => last.self \in dependencies[last.other]

\* C3 amended: a call A.addAsReferenceTo(B, true) that registers the edge
\* adds B's table as a dependency of A's table and changes the dependencies
\* of no other table, B's included: A sees B's symbols, not the reverse.
C3_TargetBecomesDependency ==
    [][(IsAddAsReferenceTo(last') /\ last'.arg = "true" /\ last'.ret = "added")
          => /\ last'.other \in dependencies'[last'.self]
             /\ \A u \in Units \ {last'.self} :
                   dependencies'[u] = dependencies[u]]_vars

\* C3 witness: after such a call B is a dependency of A and A is none of B.
C3_OneDirectionWitness ==
    /\ IsAddAsReferenceTo(last) /\ last.arg = "true" /\ last.ret = "added"
    /\ last.self # last.other
    /\ last.other \in dependencies[last.self]
    /\ last.self \notin dependencies[last.other]

(***************************************************************************)
(* C4: addAsReferenceTo terminates in every reachable mesh state.          *)
(***************************************************************************)
\* C4 as claimed: no addAsReferenceTo call loops forever.
C4_AddAsReferenceToTerminates ==
    IsAddAsReferenceTo(last) => last.ret # "hang"

(***************************************************************************)
(* C5: getReferenceCount terminates and returns a count in every           *)
(* reachable mesh state.                                                   *)
(***************************************************************************)
\* C5 as claimed: every getReferenceCount call returns a number.
C5_GetReferenceCountReturns ==
    last.op = "getReferenceCount" => last.ret = "number"

(***************************************************************************)
(* C6: starting with no edges between A and B, after A.addAsReferenceTo(B) *)
(* followed by B.addAsReferenceTo(A) each is in the other's references.    *)
(***************************************************************************)
\* the step is the call self.addAsReferenceTo(context), and it returns
AddStep(self, context) ==
    /\ IsAddAsReferenceTo(last') /\ Returned(last')
    /\ last'.self = self /\ last'.other = context

\* both are in each other's list after the step
MutualAfter(a, b) ==
    /\ Includes(references'[b], a)
    /\ Includes(references'[a], b)

\* C6 as claimed: the last call was a.addAsReferenceTo(b), there was no edge
\* between a and b before it, and the step is b.addAsReferenceTo(a).
C6_MutualInclusionRegistered ==
    [][\A a \in Units : \A b \in Units \ {a} :
          (/\ IsAddAsReferenceTo(last) /\ Returned(last)
           /\ last.self = a /\ last.other = b
           /\ ~Includes(references[a], b)
           /\ (last.ret = "added" \/ ~Includes(references[b], a))
           /\ AddStep(b, a))
          => MutualAfter(a, b)]_vars

\* C6 amended: when a.addAsReferenceTo(b) registered its edge and b is in
\* the references neither of a nor of a context that references a directly
\* or through others, a following b.addAsReferenceTo(a) that returns
\* registers the reverse edge: the cycle is accepted, and each is in the
\* other's references.
C6_MutualInclusionTolerated ==
    [][\A a \in Units : \A b \in Units \ {a} :
          (/\ IsAddAsReferenceTo(last) /\ last.ret = "added"
           /\ last.self = a /\ last.other = b
           /\ \A x \in ReferrersOf(a) : ~Includes(references[x], b)
           /\ AddStep(b, a))
          => (last'.ret = "added" /\ MutualAfter(a, b))]_vars

\* C6 witness: the reverse edge was just registered and both edges exist.
C6_CycleWitness ==
    /\ IsAddAsReferenceTo(last) /\ last.ret = "added"
    /\ last.self # last.other
    /\ Includes(references[last.self], last.other)
    /\ Includes(references[last.other], last.self)

(***************************************************************************)
(* C7: if A references B and B references C, a use counted in B's table    *)
(* is included in A.getReferenceCount(name).                               *)
(***************************************************************************)
IsGetReferenceCount(call) == call.op = "getReferenceCount"

\* a references b and b references c
Chain(a, b, c) ==
    /\ a # b /\ b # c /\ a # c
    /\ Includes(references[b], a)
    /\ Includes(references[c], b)

\* C7 as claimed: the count returned for A covers A's and B's tables.
C7_CountedInReferencer ==
    \A a \in Units, b \in Units, c \in Units :
        (IsGetReferenceCount(last) /\ last.ret = "number"
         /\ last.self = a /\ Chain(a, b, c))
            => last.count >= symbolReferences[a] + symbolReferences[b]

\* C7 amended: if A references B and B references C, the uses counted in
\* B's table, and those in A's, are included in C.getReferenceCount(name);
\* A.getReferenceCount(name) covers A's own table and the contexts that
\* reference A, so with no context referencing A it is A's own count.
C7_CountedInReferenced ==
    \A a \in Units, b \in Units, c \in Units :
        (IsGetReferenceCount(last) /\ last.ret = "number" /\ Chain(a, b, c))
            => /\ last.self = c
                     => last.count >= symbolReferences[a] + symbolReferences[b]
                                          + symbolReferences[c]
               /\ (last.self = a /\ references[a] = <<>>)
                     => last.count = symbolReferences[a]

\* C7 witness: C's count was taken over a chain with a use in B's table.
C7_ChainWitness ==
    \E a \in Units, b \in Units :
        /\ IsGetReferenceCount(last) /\ last.ret = "number"
        /\ Chain(a, b, last.self)
        /\ symbolReferences[b] > 0 /\ symbolReferences[a] > 0
        /\ last.count >= symbolReferences[a] + symbolReferences[b]

(***************************************************************************)
(* C8: on an acyclic mesh U.getReferenceCount(name) is the count of U's    *)
(* own table plus the sum of V.getReferenceCount(name) over the V in       *)
(* U.getReferences(), recursively.                                         *)
(***************************************************************************)
AcyclicMesh == \A u \in Units : u \notin Closure(Referrers({u}), NumUnits)

\* the chains of references that end in u: w[i] is in the list of w[i + 1]
ChainsTo(u) ==
    {w \in UNION {[1..n -> Units] : n \in 1..NumUnits} :
        /\ w[Len(w)] = u
        /\ \A i \in 1..(Len(w) - 1) : Includes(references[w[i + 1]], w[i])}

RECURSIVE SumOfHeads(_)
SumOfHeads(S) ==
    IF S = {} THEN 0
    ELSE LET w == CHOOSE x \in S : TRUE
         IN  symbolReferences[w[1]] + SumOfHeads(S \ {w})

\* C8: unrolled, the recursive sum counts a table once for every chain of
\* references that leads from it to U.
C8_RecursiveSum ==
    (IsGetReferenceCount(last) /\ AcyclicMesh)
        => /\ last.ret = "number"
           /\ last.count = SumOfHeads(ChainsTo(last.self))

\* C8 witness: a count over two levels of references with uses in each.
C8_TwoLevelWitness ==
    /\ IsGetReferenceCount(last) /\ last.ret = "number" /\ AcyclicMesh
    /\ \E v \in Units :
          /\ Includes(references[last.self], v)
          /\ references[v] # <<>>
          /\ symbolReferences[v] > 0
    /\ last.count > symbolReferences[last.self]

(***************************************************************************)
(* C9: every parse() sets semanticAnalysisDone to false and empties the    *)
(* diagnostics, so the first getDiagnostics() after it analyses again and  *)
(* returns nothing left over from the previous parse.                      *)
(***************************************************************************)
\* the entries of the list that the parser and the listener reported
Reported(list) == SelectSeq(list, LAMBDA e : e # AddedEntry)

\* C9: after parse() the flag is false, no walk has run and the list holds
\* what this parse reported; after getDiagnostics() on a context with a
\* tree the analysis has run and the reported entries are those of the
\* tree's text alone.
C9_ParseInvalidates ==
    /\ last.op = "parse"
          => /\ ~semanticAnalysisDone[last.self]
             /\ walks[last.self] = 0
             /\ diagnostics[last.self] =
                   (IF last.ret = "throw" THEN <<>>
                    ELSE SyntaxErrors(text[last.self]))
    /\ (last.op = "getDiagnostics" /\ tree[last.self].defined)
          => /\ semanticAnalysisDone[last.self]
             /\ walks[last.self] >= 1
             /\ Reported(diagnostics[last.self]) =
                   SyntaxErrors(tree[last.self].text)
                       \o SemanticErrors(tree[last.self].text)

\* C9 witness: a parse() that found the analysis done and entries in the
\* list.
C9_ReparseWitness ==
    /\ last.op = "parse"
    /\ last.invalidated /\ last.dropped > 0
    /\ ~semanticAnalysisDone[last.self]

(***************************************************************************)
(* C10: between two parse() calls on a context with a tree the semantic    *)
(* walk runs exactly once, on the first getDiagnostics() or                *)
(* getReferenceCount(); repeated getDiagnostics() return the same list.    *)
(***************************************************************************)
OneWalkPerGeneration ==
    /\ \A u \in Units :
          /\ walks[u] <= 1
          /\ walks[u] = 1 <=> semanticAnalysisDone[u]
    /\ (last.op \in {"getDiagnostics", "getReferenceCount"}
        /\ tree[last.self].defined)
          => walks[last.self] = 1

\* a getDiagnostics() call on an analysed context changes nothing
RepeatedQueryIsStable ==
    (last'.op = "getDiagnostics" /\ semanticAnalysisDone[last'.self])
        => /\ last'.walked = {}
           /\ diagnostics' = diagnostics
           /\ walks' = walks

\* C10: the two together.
C10_AnalysisOncePerGeneration ==
    []OneWalkPerGeneration /\ [][RepeatedQueryIsStable]_vars

\* C10 witness: a getDiagnostics() call that found the analysis done.
C10_RepeatedQueryWitness ==
    /\ last.op = "getDiagnostics"
    /\ last.walked = {}
    /\ tree[last.self].defined
    /\ walks[last.self] = 1

(***************************************************************************)
(* C11: parse() then getDiagnostics() on unchanged text, after a parse()   *)
(* and getDiagnostics() on that text that yielded zero diagnostics, again  *)
(* yields zero diagnostics, also when the first run's arrow evaluation     *)
(* loaded another context and registered a mesh edge.                      *)
(***************************************************************************)
IsGetDiagnostics(call) == call.op = "getDiagnostics"

\* C11: the re-run does not hang, and when it returns the list it is empty.
C11_RerunYieldsZero ==
    (IsGetDiagnostics(last) /\ last.yielded = 0)
        => /\ last.ret # "hang"
           /\ last.ret = "list" => last.count = 0

\* C11 witness: a re-run that walked the tree again, loaded the context of
\* the arrow's source, found the edge of the first run and returned an
\* empty list.
C11_RerunWitness ==
    /\ IsGetDiagnostics(last) /\ last.yielded = 0 /\ last.ret = "list"
    /\ last.walked = {last.self}
    /\ generation[last.self] >= 2
    /\ last.value.kind = "string"
    /\ arrow[last.self].objContext # ""
    /\ Includes(references[arrow[last.self].objContext], last.self)
    /\ last.count = 0

(***************************************************************************)
(* C12: parse() is the only operation that invalidates the analysis state  *)
(* and clears diagnostics: no other operation sets semanticAnalysisDone    *)
(* back to false or removes an entry from a diagnostics list.              *)
(***************************************************************************)
IsPrefix(a, b) == Len(a) <= Len(b) /\ \A i \in DOMAIN a : a[i] = b[i]

\* the step is a call of parse()
ParseStep == last'.op = "parse" /\ calls' = calls + 1

\* C12: a step that is not a call of parse() leaves every flag that is set
\* set and keeps every list as a prefix of what it becomes.
C12_OnlyParseInvalidates ==
    [][~ParseStep =>
          \A u \in Units :
              /\ semanticAnalysisDone[u] => semanticAnalysisDone'[u]
              /\ IsPrefix(diagnostics[u], diagnostics'[u])]_vars

\* C12 witness: an operation other than parse() and the analysis itself was
\* called on an analysed context with diagnostics.
C12_KeptWitness ==
    /\ last.op \in {"setText", "symbolAtPosition", "removeDependency",
                    "getCodeCompletionCandidates"}
    /\ semanticAnalysisDone[last.self]
    /\ diagnostics[last.self] # <<>>

(***************************************************************************)
(* C13: in state Parsed every analysis-dependent query runs the semantic   *)
(* analysis before it answers: getDiagnostics, getReferenceCount,          *)
(* symbolAtPosition on a call-other target and getCodeCompletionCandidates *)
(* inside an arrow expression.                                             *)
(***************************************************************************)
AnalysisQueries ==
    {"getDiagnostics", "getReferenceCount", "symbolAtPosition",
     "getCodeCompletionCandidates"}

\* C13: after such a query on a context with a tree the analysis is done.
C13_QueriesAnalyse ==
    (last.op \in AnalysisQueries /\ last.ret # "hang"
     /\ tree[last.self].defined)
        => semanticAnalysisDone[last.self]

(***************************************************************************)
(* C14: on return from the evaluation of an arrow expression the call      *)
(* stack holds exactly the frames it held on entry, on every return path,  *)
(* completion of the callee body by an exception included.                 *)
(***************************************************************************)
\* the step is an evaluation that came back to its caller
EvalStep ==
    /\ last'.op = "eval" /\ calls' = calls + 1
    /\ last'.ret # "hang"

C14_StackBalanced == [][EvalStep => stack' = stack]_vars

(***************************************************************************)
(* C15: an arrow with no target name evaluated as a remote call produces   *)
(* exactly one error diagnostic, "missing method name", whatever the       *)
(* source value, and attempts no remote call.                              *)
(***************************************************************************)
Errors(list) == SelectSeq(list, LAMBDA e : e.type = "Error")

\* the last call evaluated its arrow as a remote call and came back
RemoteCall(call) ==
    /\ call.op = "eval" /\ call.ret # "hang"
    /\ call.value.kind # "struct"

C15_OneErrorNoCall ==
    (RemoteCall(last) /\ ArrowOf(tree[last.self].text).target = "")
        => /\ Errors(last.added) = <<MissingMethodName>>
           /\ last.arg = ""

(***************************************************************************)
(* C16: evaluating "obj.c"->foo() where obj.c can be loaded and defines    *)
(* foo: remote call, obj.c loaded, the evaluating context registered as    *)
(* referencing obj.c, foo found and its body evaluated, no diagnostic.     *)
(***************************************************************************)
\* the last call evaluated `"path"->foo()` with the path of a context that
\* declares foo
LoadableCall(call) ==
    /\ call.op = "eval"
    /\ call.value.kind = "string"
    /\ call.value.value \in Units
    /\ ArrowOf(tree[call.self].text).target = "foo"
    /\ ArrowOf(tree[call.self].text).invocation
    /\ "foo" \in Declares(tree[call.value.value].text)

C16_LoadsFindsEvaluates ==
    LoadableCall(last)
        => /\ last.arg \in Bodies
           /\ arrow[last.self].ArrowType = "CallOther"
           /\ arrow[last.self].objContext = last.value.value
           /\ \E x \in ReferrersOf(last.value.value) :
                 Includes(getReferences(x), last.self)
           /\ last.added = <<>>

(***************************************************************************)
(* C17: evaluating "missing.c"->foo() where missing.c cannot be loaded     *)
(* adds a warning "could not load source", registers no mesh edge, pushes  *)
(* no frame and returns no value.                                          *)
(***************************************************************************)
\* the step evaluates `"path"->foo()` with a path that is no context's
MissingStep ==
    /\ last'.op = "eval" /\ calls' = calls + 1
    /\ last'.value.kind = "string"
    /\ last'.value.value \notin Units
    /\ ArrowOf(tree[last'.self].text).target = "foo"
    /\ ArrowOf(tree[last'.self].text).invocation

C17_MissingSourceWarns ==
    [][MissingStep =>
          /\ Occurrences(last'.added, CouldNotLoad) = 1
          /\ CouldNotLoad.type = "Warning"
          /\ diagnostics'[last'.self] = diagnostics[last'.self] \o last'.added
          /\ references' = references
          /\ dependencies' = dependencies
          /\ stack' = stack
          /\ last'.arg = ""
          /\ last'.ret = "undefined"]_vars

\* C17 witness: such an evaluation came back.
C17_MissingWitness ==
    /\ last.op = "eval"
    /\ last.value = [kind |-> "string", value |-> "missing.c"]
    /\ tree[last.self].text = "'missing.c'->foo()"
    /\ Includes(diagnostics[last.self], CouldNotLoad)
    /\ last.ret = "undefined"

(***************************************************************************)
(* Name resolution                                                         *)
(***************************************************************************)
IsResolveFilename == last.op = "resolveFilename"

Bracketed(raw) == raw.open = "<" /\ raw.close = ">"

\* The name between the delimiters, with its extension.
NormalizedName(raw) ==
    normalizeFilename([raw EXCEPT !.open = "", !.close = ""])

\* The directories in the order stated: this file's directory, then the
\* import directories as configured; the exact reverse for a bracketed
\* name; the workspace root last when the name contains a separator.
StatedOrder(raw) ==
    LET n == Len(importDir)
        dirOf(i) == IF importDir[i].absolute
                    THEN importDir[i].segs
                    ELSE basePath \o importDir[i].segs
        local == [i \in 1..(n + 1) |->
                    IF i = 1 THEN basePath ELSE dirOf(i - 1)]
        global == [i \in 1..(n + 1) |->
                    IF i = n + 1 THEN basePath ELSE dirOf(n + 1 - i)]
        order == IF Bracketed(raw) THEN global ELSE local
    IN  IF Len(NormalizedName(raw).segs) > 1
        THEN order \o <<workspaceDir>>
        ELSE order

\* The positions of the stated order whose joined path is on disk.
Existing(raw) ==
    {i \in DOMAIN StatedOrder(raw) :
        JoinPath(StatedOrder(raw)[i], NormalizedName(raw)) \in disk}

\* C18: resolveFilename returns the first existing path of the order: this
\* file's directory then the import directories as configured for a quoted
\* or bare name, the exact reverse for a bracketed name, the workspace root
\* last in both cases when the normalized name contains a separator.
C18_FirstExistingWins ==
    (IsResolveFilename /\ Existing(last.resolved.raw) # {}) =>
        LET raw == last.resolved.raw
            first == CHOOSE i \in Existing(raw) :
                        \A j \in Existing(raw) : i <= j
        IN  last.resolved.fullPath =
                JoinPath(StatedOrder(raw)[first], NormalizedName(raw))

\* A bracketed name found in this file's directory and in an import
\* directory resolves to the import directory's file.
C18_ReversedWitness ==
    /\ IsResolveFilename
    /\ Bracketed(last.resolved.raw)
    /\ importDir # <<>>
    /\ JoinPath(basePath, NormalizedName(last.resolved.raw)) \in disk
    /\ last.resolved.fullPath \in disk
    /\ last.resolved.fullPath #
          JoinPath(basePath, NormalizedName(last.resolved.raw))

ResolveStep == last' # last /\ last'.op = "resolveFilename"

\* C19: resolveFilename returns a result without fullPath exactly when no
\* candidate path exists on disk; it returns (never throws) whatever is on
\* disk, and leaves the context's diagnostics, mesh, symbol table and
\* analysis flag as they were.
C19_SoftFailure ==
    [][ResolveStep =>
        /\ last'.ret = "value"
        /\ (last'.resolved.fullPath = NoPath) <=>
               (Existing(last'.resolved.raw) = {})
        /\ UNCHANGED <<references, dependencies, text, tree,
                       semanticAnalysisDone, diagnostics, symbolReferences,
                       arrow, stack, disk, importDir>>]_vars

\* An unresolved name in a context with diagnostics and a completed
\* analysis, while other files exist.
C19_UnresolvedWitness ==
    /\ IsResolveFilename
    /\ last.resolved.fullPath = NoPath
    /\ disk # {}
    /\ importDir # <<>>
    /\ diagnostics[last.self] # <<>>
    /\ semanticAnalysisDone[last.self]

(***************************************************************************)
(* Completion: the merge of the lookups                                    *)
(***************************************************************************)
CompletionDone == completion.phase = "done"

\* The lookups that returned a symbol named n.
Returning(n) ==
    {i \in DOMAIN completion.lookups :
        /\ completion.lookups[i].defined
        /\ Includes(completion.lookups[i].names, n)}

\* The names the lookups returned.
ReturnedNames ==
    UNION {{completion.lookups[i].names[k] :
               k \in DOMAIN completion.lookups[i].names} :
           i \in {j \in DOMAIN completion.lookups :
                     completion.lookups[j].defined}}

\* The positions of the result holding a symbol named n.
CandidatesOf(n) ==
    {p \in DOMAIN completion.result :
        completion.result[p].from > 0 /\ completion.result[p].name = n}

FirstRegistered(n) ==
    CHOOSE i \in Returning(n) : \A j \in Returning(n) : i <= j

\* C20 as stated: every name the lookups returned yields one candidate,
\* taken from the first-registered lookup that returned it.
C20_EachNameOnce ==
    CompletionDone =>
        \A n \in ReturnedNames :
            /\ Cardinality(CandidatesOf(n)) = 1
            /\ \A p \in CandidatesOf(n) :
                   completion.result[p].from = FirstRegistered(n)

\* C20, amended: every name other than "EOF" that the lookups returned
\* yields one candidate, taken from the first-registered lookup that
\* returned it, and a symbol named "EOF" yields none; the candidates follow
\* the ones added before the lookups, in the order of registration and,
\* within a lookup, of its symbols: the list does not depend on the order in
\* which the lookups completed.
C20_MergeFirstRegistered ==
    CompletionDone =>
        LET result == completion.result
            place(p) == IndexOf(completion.lookups[result[p].from].names,
                                result[p].name)
        IN  /\ \A n \in ReturnedNames \ {"EOF"} :
                   /\ Cardinality(CandidatesOf(n)) = 1
                   /\ \A p \in CandidatesOf(n) :
                          result[p].from = FirstRegistered(n)
            /\ CandidatesOf("EOF") = {}
            /\ \A p \in DOMAIN result :
                   result[p].from > 0 => result[p].name \in ReturnedNames
            /\ \A p \in DOMAIN result : \A q \in DOMAIN result :
                   (p < q /\ result[q].from > 0) =>
                       \/ result[p].from < result[q].from
                       \/ /\ result[p].from = result[q].from
                          /\ place(p) < place(q)

\* A name returned by two lookups, the later-registered of which completed
\* first, and a symbol named "EOF" among those returned.
C20_OutOfOrderWitness ==
    /\ CompletionDone
    /\ "EOF" \in ReturnedNames
    /\ \E n \in ReturnedNames \ {"EOF"} :
           \E i \in Returning(n) : \E j \in Returning(n) :
               /\ i < j
               /\ IndexOf(completion.settled, j) < IndexOf(completion.settled, i)
               /\ CandidatesOf(n) # {}

(***************************************************************************)
(* Completion at an arrow                                                  *)
(***************************************************************************)
\* The completion request on a context with an arrow has just returned.
MembersListed ==
    /\ last.op = "getCodeCompletionCandidates"
    /\ last.ret = "list"
    /\ HasArrow(last.self)

\* C21: when the arrow has resolved to a remote object, from a path string
\* loaded on demand or from an object reference, the candidates of the
\* completion are exactly that object's own methods, without the built-in
\* functions.
C21_MembersOfObject ==
    (/\ MembersListed
     /\ arrow[last.self].ArrowType = "CallOther"
     /\ arrow[last.self].objContext # "") =>
        NamesOf(completion.result) =
            NamesOf(OwnMethods(arrow[last.self].objContext))

(***************************************************************************)
(* The two prediction modes of parse()                                     *)
(***************************************************************************)
IsParse == last.op = "parse"

RemoveStep == calls' # calls /\ last'.op = "removeDependency"

\* C23: A.removeDependency(B) leaves A out of B's references and B's table
\* out of A's dependencies, keeps every other entry of B's list in its
\* place, changes no other context's list or dependencies, and changes
\* nothing when the call before it was the same call.
C23_RemoveIdempotentLocal ==
    [][RemoveStep =>
        LET a == last'.self
            b == last'.other
        IN  /\ references'[b] = SelectSeq(references[b], LAMBDA x : x # a)
            /\ ~Includes(references'[b], a)
            /\ dependencies'[a] = dependencies[a] \ {b}
            /\ \A u \in Units \ {b} : references'[u] = references[u]
            /\ \A u \in Units \ {a} : dependencies'[u] = dependencies[u]
            /\ (last.op = "removeDependency" /\ last.self = a
                   /\ last.other = b) =>
                   (references' = references /\ dependencies' = dependencies)
    ]_vars

\* A removal that took an entry out of a list in which another stays.
C23_RemovedWitness ==
    /\ last.op = "removeDependency"
    /\ last.dropped = 1
    /\ references[last.other] # <<>>
    /\ \E u \in Units \ {last.other} : references[u] # <<>>

NoDuplicates(list) == \A x \in Units : Occurrences(list, x) <= 1

\* C24: whatever addAsReferenceTo, removeDependency and parse calls were
\* made, no context's references list holds a context more than once.
C24_NoDuplicateReferences ==
    \A u \in Units : NoDuplicates(references[u])

\* A list of two references, after a call that found the caller present.
C24_PresentWitness ==
    /\ last.op = "addAsReferenceTo"
    /\ last.ret = "present"
    /\ Len(references[last.other]) >= 2
    /\ Includes(references[last.other], last.self)

(***************************************************************************)
(* ArrowSymbol.eval: the two branches                                      *)
(***************************************************************************)
IsEval == last.op = "eval"

\* The step is an evaluation of an arrow.
AnyEvalStep == last'.op = "eval" /\ calls' = calls + 1

\* The arrow of the context the evaluating step works on.
ShapeOfStep == ArrowOf(tree[last'.self].text)

\* C25: eval takes the struct-member branch exactly when the type of the
\* source value is named struct and the remote-call branch otherwise, also
\* when the source evaluates to nothing; the ArrowType recorded after an
\* eval is that of the branch this eval took.
C25_ClassifiedByType ==
    IsEval =>
        /\ (last.evald.branch = "evalStruct") <=> (last.value.kind = "struct")
        /\ (last.evald.branch = "evalCallOther") <=>
               (last.value.kind # "struct")
        /\ arrow[last.self].ArrowType =
               IF last.value.kind = "struct" THEN "StructMember"
               ELSE "CallOther"

\* A source that evaluated to nothing, classified as a remote call on a
\* node that an earlier eval of the generation had classified as a struct.
C25_ReclassifiedWitness ==
    /\ IsEval
    /\ last.value = Nothing
    /\ arrow[last.self].ArrowType = "CallOther"
    /\ \E i \in DOMAIN diagnostics[last.self] :
           diagnostics[last.self][i].message \in
               {"Missing struct access member name",
                "Cannot call methods on struct members"}

StructStep == AnyEvalStep /\ last'.value.kind = "struct"

\* C26: in the struct-member branch a missing target adds one error
\* (missing member name), a target with an invocation adds one error
\* (cannot call methods on struct members), a target alone adds nothing;
\* no context is loaded, no edge registered, the stack is left alone and
\* the scope passed in is returned.
C26_StructChecksOnly ==
    [][StructStep =>
        /\ last'.added =
              IF ShapeOfStep.target = ""
              THEN <<[type |-> "Error",
                      message |-> "Missing struct access member name"]>>
              ELSE IF ShapeOfStep.invocation
              THEN <<[type |-> "Error",
                      message |-> "Cannot call methods on struct members"]>>
              ELSE <<>>
        /\ diagnostics'[last'.self] = diagnostics[last'.self] \o last'.added
        /\ \A u \in Units \ {last'.self} : diagnostics'[u] = diagnostics[u]
        /\ arrow'[last'.self].objContext = arrow[last'.self].objContext
        /\ references' = references
        /\ dependencies' = dependencies
        /\ stack' = stack
        /\ last'.arg = ""
        /\ last'.ret = "scope"]_vars

\* A struct evaluation of a node that an earlier evaluation had resolved
\* to an object, in a mesh with an edge.
C26_StructWitness ==
    /\ IsEval
    /\ last.value.kind = "struct"
    /\ last.added # <<>>
    /\ arrow[last.self].objContext # ""
    /\ \E u \in Units : references[u] # <<>>

\* The last call evaluated, as a remote call, an arrow with a target and
\* no invocation.
NoParens(call) ==
    /\ call.op = "eval"
    /\ call.value.kind # "struct"
    /\ ArrowOf(tree[call.self].text).target # ""
    /\ ~ArrowOf(tree[call.self].text).invocation

Resolvable(value) ==
    \/ value.kind = "string" /\ value.value \in Units
    \/ value.kind = "object"

\* C27: a remote call with a target and no invocation adds the error for
\* the missing parentheses and goes on: with a loadable path or an object
\* reference as source value the node's objContext is the object the
\* evaluation resolved.
C27_ProceedsPastDiagnostic ==
    NoParens(last) =>
        /\ Occurrences(last.added,
                       [type |-> "Error", message |-> "Missing ()"]) = 1
        /\ Resolvable(last.value) =>
               /\ arrow[last.self].objContext = last.value.value
               /\ last.evald.reached

\* Such an evaluation with a path loaded on demand.
C27_LoadedWitness ==
    /\ NoParens(last)
    /\ last.value.kind = "string"
    /\ arrow[last.self].objContext = last.value.value
    /\ Includes(references[last.value.value], last.self)

UnresolvableStep ==
    /\ AnyEvalStep
    /\ last'.value.kind \notin {"struct", "string", "object"}

\* C28: a remote call whose source value is neither a path string nor an
\* object reference returns no value and adds nothing but the entry of the
\* check of target and invocation; it loads nothing, registers no edge,
\* evaluates neither the target nor the arguments and leaves the stack and
\* the node's object and function name as they were.
C28_UnresolvableAborts ==
    [][UnresolvableStep =>
        /\ last'.ret = "undefined"
        /\ last'.added =
              IF ShapeOfStep.target = ""
              THEN <<[type |-> "Error", message |-> "Missing method name"]>>
              ELSE IF ~ShapeOfStep.invocation
              THEN <<[type |-> "Error", message |-> "Missing ()"]>>
              ELSE <<>>
        /\ diagnostics'[last'.self] = diagnostics[last'.self] \o last'.added
        /\ arrow'[last'.self].objContext = arrow[last'.self].objContext
        /\ arrow'[last'.self].functionName = arrow[last'.self].functionName
        /\ references' = references
        /\ dependencies' = dependencies
        /\ stack' = stack
        /\ last'.evald.targetEvals = 0
        /\ ~last'.evald.argEvals
        /\ last'.arg = ""]_vars

\* Such an evaluation of a complete call, the source evaluating to nothing.
C28_NothingWitness ==
    /\ IsEval
    /\ last.value = Nothing
    /\ last.ret = "undefined"
    /\ ArrowOf(tree[last.self].text).invocation
    /\ last.added = <<>>

\* C29: once an evaluation of a node has got to the resolution of the
\* function name, the next evaluation of the same node does not evaluate
\* the target expression again, whatever the first one produced.
C29_TargetEvaluatedOnce ==
    [][(/\ AnyEvalStep
        /\ last.op = "eval"
        /\ last.self = last'.self
        /\ last.evald.reached) => last'.evald.targetEvals = 0]_vars

\* The step is a remote call that got to the lookup and found no function
\* of the name in the table of the object, or had no object.
NotFoundStep ==
    /\ AnyEvalStep
    /\ last'.evald.reached
    /\ LET node == arrow'[last'.self]
       IN  \/ node.objContext = ""
           \/ node.functionName \notin Declares(tree[node.objContext].text)

\* C30: when the function name is not found in the resolved object's table,
\* or no object was resolved, the evaluation adds exactly one error saying
\* that the function may be undefined, returns no value, evaluates no
\* argument and pushes no frame.
C30_UndefinedFunction ==
    [][NotFoundStep =>
        /\ Occurrences(last'.added,
                       [type |-> "Error",
                        message |-> "Function may be undefined"]) = 1
        /\ last'.ret = "undefined"
        /\ ~last'.evald.argEvals
        /\ last'.arg = ""
        /\ stack' = stack]_vars

\* An object that was loaded and does not declare the name the target
\* evaluated to.
C30_UnknownNameWitness ==
    /\ IsEval
    /\ last.evald.reached
    /\ arrow[last.self].objContext # ""
    /\ arrow[last.self].functionName = "bar"
    /\ last.ret = "undefined"

(***************************************************************************)
(* The order of a remote call                                              *)
(***************************************************************************)
\* The last call was a remote call whose function was found and returned.
Successful(call) == call.op = "eval" /\ call.ret = "value"

\* The position of a step in the steps of the last call, 0 when absent.
StepAt(name) ==
    IF \E i \in DOMAIN last.evald.steps : last.evald.steps[i].step = name
    THEN CHOOSE i \in DOMAIN last.evald.steps :
             last.evald.steps[i].step = name
    ELSE 0

\* C31: in a successful remote call the arguments of the invocation are
\* evaluated before any frame of the call is on the stack; then exactly one
\* frame is pushed, that of the function found, over the table of the
\* callee; then the body is evaluated; then the frame is popped.
C31_CallOrder ==
    Successful(last) =>
        LET steps == last.evald.steps
            shape == ArrowOf(tree[last.self].text)
        IN  /\ shape.invocation =>
                   /\ StepAt("arguments") = 1
                   /\ steps[1].depth = 0
            /\ ~shape.invocation => StepAt("arguments") = 0
            /\ StepAt("push") = (IF shape.invocation THEN 2 ELSE 1)
            /\ StepAt("body") = StepAt("push") + 1
            /\ StepAt("pop") = StepAt("body") + 1
            /\ Len(steps) = StepAt("pop")
            /\ Cardinality({i \in DOMAIN steps : steps[i].step = "push"}) = 1
            /\ steps[StepAt("body")].depth = 1
            /\ steps[StepAt("pop")].depth = 0
            /\ last.evald.frames =
                  <<[symbol |-> arrow[last.self].functionName,
                     table |-> arrow[last.self].objContext]>>
            /\ last.evald.argEvals = shape.invocation

\* A call with an invocation that returned a value from an object loaded
\* for it.
C31_ReturnedWitness ==
    /\ Successful(last)
    /\ ArrowOf(tree[last.self].text).invocation
    /\ last.value.kind = "string"
    /\ Len(last.evald.steps) = 4
    /\ stack = <<>>

(***************************************************************************)
(* The resolved object of an arrow                                         *)
(***************************************************************************)
\* The context a source value stands for, "" when it stands for none.
ObjectOf(value) == IF Resolvable(value) THEN value.value ELSE ""

\* The object reference a source value is, "" when it is none.
ReferenceOf(value) == IF value.kind = "object" THEN value.value ELSE ""

\* C32: when eval has returned, objContext and objectRef of the node are
\* those of the source value of this evaluation, unset when it resolved
\* none; nothing is left of an earlier evaluation.
C32_ResolvedObjectFresh ==
    (IsEval /\ last.ret \in {"value", "undefined"}) =>
        /\ arrow[last.self].objContext = ObjectOf(last.value)
        /\ arrow[last.self].objectRef = ReferenceOf(last.value)

(***************************************************************************)
(* A context without a tree                                                *)
(***************************************************************************)
\* The step is a getDiagnostics or getReferenceCount call.
QueryStep ==
    /\ last'.op \in {"getDiagnostics", "getReferenceCount"}
    /\ calls' = calls + 1

\* C37: a context without a tree is never analysed: a getDiagnostics or
\* getReferenceCount call on it walks nothing of it and leaves its flag
\* false, and such a call on a context that has a tree and was not analysed
\* since its last parse runs the walk and sets the flag.
C37_NoTreeNeverAnalysed ==
    [][/\ \A u \in Units : ~tree'[u].defined => ~semanticAnalysisDone'[u]
       /\ (QueryStep /\ ~tree[last'.self].defined) =>
              /\ last'.self \notin last'.walked
              /\ walks'[last'.self] = walks[last'.self]
              /\ ~semanticAnalysisDone'[last'.self]
       /\ (QueryStep /\ tree[last'.self].defined
              /\ ~semanticAnalysisDone[last'.self]) =>
              /\ last'.self \in last'.walked
              /\ walks'[last'.self] = walks[last'.self] + 1
              /\ semanticAnalysisDone'[last'.self]]_vars

\* A query on a context whose last parse threw walked nothing and left the
\* flag false.
C37_QueriedWithoutTreeWitness ==
    /\ last.op \in {"getDiagnostics", "getReferenceCount"}
    /\ ~tree[last.self].defined
    /\ generation[last.self] > 0
    /\ last.walked = {}
    /\ ~semanticAnalysisDone[last.self]

(***************************************************************************)
(* Edges and table dependencies                                            *)
(***************************************************************************)
\* C34: with every edge made by addAsReferenceTo with mergeSymbols = true
\* and none removed, whenever a is in the references of another context b
\* the table of b is a dependency of the table of a, also after a.parse().
C34_EdgesHaveDependencies ==
    \A a \in Units : \A b \in Units \ {a} :
        Includes(references[b], a) => b \in dependencies[a]

(***************************************************************************)
(* A context in its own list                                               *)
(***************************************************************************)
\* Three loaded contexts whose arrows have a path literal as source, that
\* of A or that of B.
InitSelf ==
    /\ references = [u \in Units |-> <<>>]
    /\ text \in {t \in [Units -> ArrowTexts] :
                    /\ t["A"] \in {"'A'->foo()", "'B'->foo()"}
                    /\ t["B"] \in {"'A'->foo()", "'B'->foo()"}
                    /\ t["C"] = "'A'->foo()"}
    /\ tree = [u \in Units |-> TreeOf(text[u])]
    /\ dependencies = [u \in Units |-> {GlobalSymbols, EfunSymbols}]
    /\ semanticAnalysisDone = [u \in Units |-> FALSE]
    /\ diagnostics = [u \in Units |-> SyntaxErrors(text[u])]
    /\ symbolReferences = [u \in Units |-> 0]
    /\ generation = [u \in Units |-> 1]
    /\ walks = [u \in Units |-> 0]
    /\ last = Call("new", "", "", "", "void")
    /\ calls = 0
    /\ InitOthers

\* Calls of a context on another one, and evaluations of its own arrow.
NextSelf ==
    \E self \in AnalysisUnits :
        \/ \E context \in AnalysisUnits \ {self} :
               AddAsReferenceTo(self, context, TRUE)
        \/ \E context \in AnalysisUnits \ {self} :
               RemoveDependency(self, context)
        \/ \E srcValue \in SourceValues(tree[self].text), body \in Bodies :
               Eval(self, srcValue, body)

SpecSelf == InitSelf /\ [][NextSelf]_vars

\* C35: no context is in its own references list.
C35_NeverOwnReference ==
    \A u \in Units : ~Includes(references[u], u)

(***************************************************************************)
(* Counting over a mesh with two paths                                     *)
(***************************************************************************)
\* the sum of the counts of the tables of the contexts in S
RECURSIVE SumOfTables(_)
SumOfTables(S) ==
    IF S = {} THEN 0
    ELSE LET u == CHOOSE x \in S : TRUE
         IN  symbolReferences[u] + SumOfTables(S \ {u})

\* C36: on an acyclic mesh getReferenceCount returns the sum of the counts
\* of the tables of the distinct contexts that reach the context through
\* the mesh, its own included, each counted once.
C36_EachTableOnce ==
    (IsGetReferenceCount(last) /\ AcyclicMesh)
        => /\ last.ret = "number"
           /\ last.count = SumOfTables(ReferrersOf(last.self))

(***************************************************************************)
(* The candidates of the expected tokens and rules                         *)
(***************************************************************************)
\* The token types the call has a case for and one it has none for, and the
\* rule keys with a case, in a fixed order of the collection.
TokenTypes == <<"ARROW", "ARRAY_OPEN", "ASSIGN", "ADD_ASSIGN", "Identifier">>
RuleKeys ==
    <<"block", "statement", "primaryExpressionStart", "primaryExpression",
      "literal", "assignmentExpression", "variableDeclaration">>

ExpressionRules ==
    {"statement", "primaryExpressionStart", "primaryExpression", "literal"}

Fixed(name) == [name |-> name, from |-> 0]

\* candidates.tokens.forEach: the entry pushed for a token type
TokenCandidates(type) ==
    CASE type = "ARROW" -> <<ArrowOperator>>
      [] type = "ARRAY_OPEN" -> <<Fixed("({ val })")>>
      [] type = "ASSIGN" -> <<Fixed("=")>>
      [] type = "ADD_ASSIGN" -> <<Fixed("+=")>>
      [] OTHER -> <<>>

\* candidates.rules.forEach: the entry pushed for a rule key; the symbol at
\* the caret is the arrow of a text that has one
RuleCandidates(self, key) ==
    CASE key = "block" -> <<Fixed("{ code }")>>
      [] key \in ExpressionRules ->
            IF HasArrow(self) THEN <<>> ELSE <<ArrowOperator>>
      [] OTHER -> <<>>

\* The lookups a rule key starts: at an arrow the methods of its object;
\* elsewhere the built-in functions, the variables, the methods and the
\* method declarations of the table (the texts declare no variable and no
\* method declaration); for an assignment the variables.
RuleLookups(self, key) ==
    LET found(symbols) == [defined |-> TRUE, names |-> NamesOf(symbols)]
    IN  CASE key \in ExpressionRules ->
                IF HasArrow(self) THEN ArrowLookups(self)
                ELSE <<found(Efuns), found(<<>>), found(getAllMethods(self)),
                       found(<<>>)>>
          [] key = "assignmentExpression" -> <<found(<<>>)>>
          [] OTHER -> <<>>

\* The lists of a list of lists, one after the other.
RECURSIVE Flatten(_)
Flatten(lists) ==
    IF lists = <<>> THEN <<>> ELSE Head(lists) \o Flatten(Tail(lists))

\* The result before the await for the expected tokens and rules.
FixedOf(self, tokens, rules) ==
    Flatten([i \in DOMAIN TokenTypes |->
                IF TokenTypes[i] \in tokens
                THEN TokenCandidates(TokenTypes[i]) ELSE <<>>])
    \o Flatten([i \in DOMAIN RuleKeys |->
                   IF RuleKeys[i] \in rules
                   THEN RuleCandidates(self, RuleKeys[i]) ELSE <<>>])

\* The promises of the expected rules.
LookupsOf(self, rules) ==
    Flatten([i \in DOMAIN RuleKeys |->
                IF RuleKeys[i] \in rules
                THEN RuleLookups(self, RuleKeys[i]) ELSE <<>>])

SetOf(list) == {list[i] : i \in DOMAIN list}

\* One completion request on the loaded context A for any expected tokens
\* and rules; the lookups settle in the order they were started.
NextCandidates ==
    \/ /\ completion.phase = "idle"
       /\ \E tokens \in SUBSET SetOf(TokenTypes),
             rules \in SUBSET SetOf(RuleKeys) :
              GetCodeCompletionCandidates("A", FixedOf("A", tokens, rules),
                                          LookupsOf("A", rules))
    \/ Settle(Len(completion.settled) + 1)
    \/ Merge

SpecCandidates == InitLoaded /\ [][NextCandidates]_vars

\* C38: the list the call returns has no two entries with the same name,
\* the fixed entries of tokens and rules counted with the merged symbols.
C38_NamesUnique ==
    CompletionDone =>
        \A p \in DOMAIN completion.result, q \in DOMAIN completion.result :
            completion.result[p].name = completion.result[q].name => p = q

(***************************************************************************)
(* A query that arrives during a semantic walk.  The walk is a step of its *)
(* own here: between its start and its end the listener may call into the  *)
(* contexts again.                                                         *)
(***************************************************************************)
Queries == {"getDiagnostics", "getReferenceCount"}

\* The start of a getDiagnostics or getReferenceCount call on self, made by
\* the server or from inside a walk in progress: runSemanticAnalysisIfNeeded
\* sets the flag and then starts the walk, or does nothing.
RunSemanticAnalysisIfNeeded(self, op) ==
    /\ Ready
    /\ IF AnalysisNeeded(self)
       THEN /\ semanticAnalysisDone' = [u \in Units |-> MarkDone(u, {self})]
            /\ walking' = Append(walking, self)
            /\ walks' = [walks EXCEPT ![self] = @ + 1]
            /\ last' = [Call(op, self, "", "", "walking")
                           EXCEPT !.walked = {self}]
       ELSE /\ UNCHANGED <<semanticAnalysisDone, walking, walks>>
            /\ last' = Call(op, self, "", "", "skipped")
    /\ UNCHANGED <<references, dependencies, text, tree, diagnostics,
                   symbolReferences, generation, arrow, stack, disk,
                   importDir, completion>>

\* The innermost walk in progress ends: the listener has recorded the
\* semantic errors and the uses of the tree.
WalkDone ==
    /\ ~Hung
    /\ walking # <<>>
    /\ LET u == walking[Len(walking)]
       IN  /\ diagnostics' =
                 [diagnostics EXCEPT ![u] = @ \o SemanticErrors(tree[u].text)]
           /\ symbolReferences' =
                 [symbolReferences EXCEPT ![u] = @ + Uses(tree[u].text)]
           /\ walking' = SubSeq(walking, 1, Len(walking) - 1)
    /\ UNCHANGED <<references, dependencies, text, tree, semanticAnalysisDone,
                   generation, walks, last, calls, arrow, stack, disk,
                   importDir, completion>>

\* Queries at any time, parse() between the walks.
NextReentry ==
    \/ \E self \in AnalysisUnits, op \in Queries :
           RunSemanticAnalysisIfNeeded(self, op)
    \/ WalkDone
    \/ \E self \in AnalysisUnits : walking = <<>> /\ Parse(self, "SLL")

SpecReentry == InitLoaded /\ [][NextReentry]_vars

\* C33: a getDiagnostics or getReferenceCount call on a context that
\* arrives while the walk of that context is in progress starts no second
\* walk of it: no context is twice among the walks in progress.
C33_NoReentry ==
    [][/\ \A u \in Units : walks'[u] > walks[u] => ~Includes(walking, u)
       /\ NoDuplicates(walking')]_vars

\* A query on a context arrived during a walk started from inside the walk
\* of that context, and was skipped.
C33_NestedQueryWitness ==
    /\ Len(walking) = 2
    /\ last.op \in Queries
    /\ last.self = walking[1]
    /\ last.ret = "skipped"
    /\ walks[last.self] = 1

====
